---- MODULE Spec2Model ----
(***************************************************************************)
(* Model of fullstack_creator/main.py: the interactive scaffolding         *)
(* generator.  The state is the position of main(), the answers collected  *)
(* so far, the executables on the search path, the target directory, the   *)
(* generation actions executed and the messages printed.  One action per   *)
(* step of main(); the helpers it calls are operators.                      *)
(***************************************************************************)
EXTENDS Naturals, Sequences, FiniteSets

VARIABLES
    pc,            \* position of main()
    onPath,        \* executables found on the search path so far
    probed,        \* executables whose presence has been looked up
    faults,        \* external faults so far (failed commands, failed writes, ...)
    fs,            \* paths of the target directory tree (empty: it does not exist)
    existed,       \* os.path.exists(project_path) as main() saw it (line 796)
    project_name,  \* stripped answer to "Enter project name"
    overwrite,     \* answer to the overwrite question
    language, structure, frontend, backend, visibility,
    acts,          \* generation actions executed, in order
    phases,        \* phases entered, in order
    prompts,       \* prompts shown, in order
    out,           \* messages printed, in order
    missing,       \* tools named by check_dependencies' error message
    exitCode,      \* {status} of sys.exit / normal return, or NoExit
    raised,        \* exception that propagated into main(), or "none"
    interrupted,   \* a user interrupt (SIGINT) has arrived
    fs0,           \* the target directory tree before the run
    fe_ok, be_ok,  \* what setup_frontend / setup_backend returned
    checks         \* check_dependencies: the tools whose probe has completed, in
                   \* completion order (a local: gone when the function returns)

plan == <<language, structure, frontend, backend, visibility>>
halt == <<out, exitCode, raised, interrupted>>
env == <<onPath, probed>>
vars == <<pc, env, faults, fs, existed, project_name, overwrite, plan, acts,
          phases, prompts, halt, missing, fe_ok, be_ok, fs0, checks>>

\* Largest number of external faults (a command failing or never finishing,
\* a filesystem call failing, an incomplete scaffold, an absorbed interrupt)
\* in one run.
MaxFaults == 2

\* The target directory as a set of paths: "." is the directory itself.
NoDir == {}
EmptyDir == {"."}
OldTree == {".", "old"}
\* exitCode holds the exit status once the process has exited through
\* sys.exit or a normal return of main().
NoExit == {}
Unset == "unset"

BaseTools == <<"git", "node", "npm">>
Languages == {"JavaScript", "Python", "Rust", "Go", "C#"}
Exceptions == {"KeyboardInterrupt", "Exception"}

Range(s) == {s[i] : i \in DOMAIN s}

----------------------------------------------------------------------------
\* Choice Catalog

\* Go left out of the backend-only languages.
get_structure_choices_no_go(lang) ==
    IF lang \in {"Rust", "C#"}
    THEN {"Backend only"}
    ELSE {"Fullstack", "Frontend only", "Backend only"}

get_structure_choices(lang) ==
    IF lang \in {"Rust", "Go", "C#"}
    THEN {"Backend only"}
    ELSE {"Fullstack", "Frontend only", "Backend only"}

\* The frontend frameworks offered for every language but Rust.
get_frontend_choices_wide(lang) ==
    IF lang = "Rust"
    THEN {"None"}
    ELSE {"Vite + React", "Vue", "Angular", "Svelte", "None"}

get_frontend_choices(lang) ==
    IF lang # "JavaScript"
    THEN {"None"}
    ELSE {"Vite + React", "Vue", "Angular", "Svelte", "None"}

get_backend_choices(lang) ==
    CASE lang = "JavaScript" -> {"Express", "None"}
      [] lang = "Python"     -> {"Flask", "Django", "FastAPI", "None"}
      [] lang = "Rust"       -> {"Rocket", "Actix", "None"}
      [] lang = "Go"         -> {"Basic HTTP Server", "None"}
      [] lang = "C#"         -> {"ASP.NET Core WebAPI", "None"}
      [] OTHER               -> {"None"}

LanguageTools(lang) ==
    CASE lang = "Python" -> <<"python3", "python">>
      [] lang = "Rust"   -> <<"cargo">>
      [] lang = "Go"     -> <<"go">>
      [] lang = "C#"     -> <<"dotnet">>
      [] OTHER           -> <<>>

\* The check skipped for a language missing from the tools table.
check_language_dependencies_no_rust(lang, be, path) ==
    IF be = "None" THEN TRUE
    ELSE IF lang \in {"Python", "Go", "C#"}
         THEN \E i \in DOMAIN LanguageTools(lang) : LanguageTools(lang)[i] \in path
         ELSE TRUE

\* check_language_dependencies(language, backend) with shutil.which read
\* from the search path `path`.
check_language_dependencies(lang, be, path) ==
    IF be = "None" THEN TRUE
    ELSE IF lang \in {"Python", "Rust", "Go", "C#"}
         THEN \E i \in DOMAIN LanguageTools(lang) : LanguageTools(lang)[i] \in path
         ELSE TRUE

----------------------------------------------------------------------------
\* The try block of main() spans lines 838-887.
InTry(p) == p \in {"frontend", "backend", "static", "commit", "publish", "open", "finish"}

\* Backend set up before the frontend.
NextStepBackendFirst(p) ==
    CASE p = "deps"      -> "deps_wait"
      [] p = "deps_wait" -> "name"
      [] p = "name"      -> "path"
      [] p = "path"      -> "exists"
      [] p = "exists"    -> "mkdir"
      [] p = "mkdir"     -> "language"
      [] p = "language"  -> "structure"
      [] p = "structure" -> "fe_prompt"
      [] p = "fe_prompt" -> "be_prompt"
      [] p = "be_prompt" -> "toolchain"
      [] p = "toolchain" -> "gh"
      [] p = "gh"        -> "gitinit"
      [] p = "gitinit"   -> "backend"
      [] p = "backend"   -> "frontend"
      [] p = "frontend"  -> "static"
      [] p = "static"    -> "commit"
      [] p = "commit"    -> "publish"
      [] p = "publish"   -> "open"
      [] p = "open"      -> "finish"
      [] OTHER           -> "exited"

\* The statements of main() in program order.
NextStep(p) ==
    CASE p = "deps"      -> "deps_wait"
      [] p = "deps_wait" -> "name"
      [] p = "name"      -> "path"
      [] p = "path"      -> "exists"
      [] p = "exists"    -> "mkdir"
      [] p = "mkdir"     -> "language"
      [] p = "language"  -> "structure"
      [] p = "structure" -> "fe_prompt"
      [] p = "fe_prompt" -> "be_prompt"
      [] p = "be_prompt" -> "toolchain"
      [] p = "toolchain" -> "gh"
      [] p = "gh"        -> "gitinit"
      [] p = "gitinit"   -> "frontend"
      [] p = "frontend"  -> "backend"
      [] p = "backend"   -> "static"
      [] p = "static"    -> "commit"
      [] p = "commit"    -> "publish"
      [] p = "publish"   -> "open"
      [] p = "open"      -> "finish"
      [] OTHER           -> "exited"

\* sys.exit(code) after printing message m.
Exit(code, m) ==
    /\ pc' = "exited"
    /\ exitCode' = {code}
    /\ out' = Append(out, m)
    /\ UNCHANGED <<raised, interrupted>>

\* Exception exc raised at the current position of main(): the handlers of
\* lines 882-887 inside the try block, the interpreter's traceback outside.
Raise(exc) ==
    /\ raised' = exc
    /\ interrupted' = (interrupted \/ exc = "KeyboardInterrupt")
    /\ IF InTry(pc)
       THEN /\ pc' = "exited"
            /\ exitCode' = {1}
            /\ out' = Append(out, IF exc = "KeyboardInterrupt"
                                  THEN "interrupted" ELSE "unexpected error")
       ELSE /\ pc' = "crashed"
            /\ out' = Append(out, "traceback")
            /\ exitCode' = exitCode

Continue == pc' = NextStep(pc) /\ UNCHANGED halt

Enter(ph) == phases' = Append(phases, ph)

Shown(q) == prompts' = Append(prompts, q)

----------------------------------------------------------------------------
Init ==
    /\ pc = "deps"
    /\ onPath = {} /\ probed = {}
    /\ faults = 0
    /\ fs \in {NoDir, OldTree}
    /\ fs0 = fs
    /\ existed = FALSE
    /\ project_name = Unset
    /\ overwrite = Unset
    /\ language = Unset /\ structure = Unset
    /\ frontend = Unset /\ backend = Unset /\ visibility = Unset
    /\ acts = <<>> /\ phases = <<>> /\ prompts = <<>> /\ out = <<>>
    /\ missing = <<>>
    /\ exitCode = NoExit
    /\ raised = "none"
    /\ interrupted = FALSE
    /\ fe_ok = Unset /\ be_ok = Unset
    /\ checks = <<>>

\* npm left out of the required tools.
MissingBaseNoNpm(path) == SelectSeq(<<"git", "node">>, LAMBDA t : t \notin path)

\* check_dependencies(): the tools whose probe failed, in dictionary order.
MissingBase(path) == SelectSeq(BaseTools, LAMBDA t : t \notin path)

\* The search path answers for the tools of set T, each looked up once.
Probe(T) ==
    \E found \in SUBSET (T \ probed) :
        /\ onPath' = onPath \cup found
        /\ probed' = probed \cup T

\* any(shutil.which(tool) for tool in tools): the lookups stop at the first hit.
ProbeAny(tools) ==
    \E k \in 0..Len(tools) :
        /\ onPath' = (IF k = 0 THEN onPath ELSE onPath \cup {tools[k]})
        /\ probed' = probed \cup {tools[i] : i \in 1..(IF k = 0 THEN Len(tools) ELSE k)}

\* n more external faults, within the budget.
Fault(n) == faults + n <= MaxFaults /\ faults' = faults + n

Cost(b) == IF b THEN 1 ELSE 0

Failed(r) == Cardinality({i \in DOMAIN r : r[i] # "True"})

\* Line 66: the three probes are handed to the thread pool.
StartChecks ==
    /\ pc = "deps"
    /\ Enter("DependencyCheck")
    /\ Continue \/ Raise("KeyboardInterrupt")
    /\ UNCHANGED <<env, faults, fs, existed, project_name, overwrite, plan, acts,
                   prompts, missing, fe_ok, be_ok, fs0, checks>>

\* check_tool in a worker thread: one probe completes, in any order.
CheckTool ==
    /\ pc = "deps_wait"
    /\ \E t \in Range(BaseTools) \ probed :
          /\ Probe({t})
          /\ checks' = Append(checks, t)
    /\ UNCHANGED <<pc, faults, fs, existed, project_name, overwrite, plan, acts,
                   phases, prompts, halt, missing, fe_ok, be_ok, fs0>>

\* Only one probe awaited before the results are merged.
ChecksJoinedFirst == Range(BaseTools) \cap probed # {}

\* dict(executor.map(...)) and the end of the with block: every probe is done.
ChecksJoined == Range(BaseTools) \subseteq probed

\* Lines 67-73: the results are merged and the missing tools reported.
CheckDependencies ==
    /\ pc = "deps_wait"
    /\ \/ /\ ChecksJoined
          /\ missing' = MissingBase(onPath)
          /\ IF missing' # <<>>
             THEN Exit(1, "missing dependencies") /\ UNCHANGED checks
             ELSE Continue /\ checks' = <<>>
       \/ Raise("KeyboardInterrupt") /\ UNCHANGED <<missing, checks>>
    /\ UNCHANGED <<env, faults, fs, existed, project_name, overwrite, plan, acts,
                   phases, prompts, fe_ok, be_ok, fs0>>

\* project_name = input(...).strip(); empty -> exit 1.
EnterProjectName ==
    /\ pc = "name"
    /\ Enter("Prompting")
    /\ Shown("name")
    /\ \/ \E n \in {"", "app"} :
            /\ project_name' = n
            /\ IF n = "" THEN Exit(1, "empty name") ELSE Continue
       \/ \E exc \in Exceptions : Raise(exc) /\ UNCHANGED project_name
    /\ UNCHANGED <<env, faults, fs, existed, overwrite, plan, acts, missing,
                   fe_ok, be_ok, fs0, checks>>

\* save_path = input(...).strip() or os.getcwd()
EnterSavePath ==
    /\ pc = "path"
    /\ Shown("path")
    /\ \/ Continue
       \/ \E exc \in Exceptions : Raise(exc)
    /\ UNCHANGED <<env, faults, fs, existed, project_name, overwrite, plan, acts,
                   phases, missing, fe_ok, be_ok, fs0, checks>>

\* The removal left out: makedirs(exist_ok=True) then keeps the old tree.
rmtree_keep(tree) == tree

\* shutil.rmtree(project_path)
rmtree(tree) == NoDir

\* Lines 795-801: an existing target is removed after confirmation.
HandleExisting ==
    /\ pc = "exists"
    /\ existed' = (fs # NoDir)
    /\ IF fs = NoDir
       THEN Continue /\ UNCHANGED <<fs, overwrite, prompts>>
       ELSE /\ Shown("overwrite")
            /\ \/ /\ overwrite' = "No"
                  /\ pc' = "exited" /\ exitCode' = {0}
                  /\ UNCHANGED <<fs, out, raised, interrupted>>
               \/ /\ overwrite' = "Yes"
                  /\ \/ /\ fs' = rmtree(fs)
                        /\ pc' = NextStep(pc)
                        /\ out' = Append(out, "removing")
                        /\ UNCHANGED <<exitCode, raised, interrupted>>
                     \/ \* shutil.rmtree raises, before or after emptying the tree
                        /\ fs' \in {fs, EmptyDir}
                        /\ pc' = "crashed"
                        /\ raised' = "Exception"
                        /\ out' = out \o <<"removing", "traceback">>
                        /\ UNCHANGED <<exitCode, interrupted>>
               \/ \E exc \in Exceptions :
                     Raise(exc) /\ UNCHANGED <<fs, overwrite>>
    /\ UNCHANGED <<env, faults, project_name, plan, acts, phases, missing,
                   fe_ok, be_ok, fs0, checks>>

\* os.makedirs(project_path, exist_ok=True)
MakeProjectDir ==
    /\ pc = "mkdir"
    /\ \/ fs' = (IF fs = NoDir THEN EmptyDir ELSE fs) /\ Continue
       \/ Raise("Exception") /\ UNCHANGED fs
    /\ UNCHANGED <<env, faults, existed, project_name, overwrite, plan, acts,
                   phases, prompts, missing, fe_ok, be_ok, fs0, checks>>

\* language = inquirer.list_input("Choose primary language", ...)
ChooseLanguage ==
    /\ pc = "language"
    /\ Shown("language")
    /\ \/ \E l \in Languages : language' = l /\ Continue
       \/ \E exc \in Exceptions : Raise(exc) /\ UNCHANGED language
    /\ UNCHANGED <<env, faults, fs, existed, project_name, overwrite, structure,
                   frontend, backend, visibility, acts, phases, missing,
                   fe_ok, be_ok, fs0, checks>>

\* structure = inquirer.list_input("Project type", ...); frontend = backend = "None"
ChooseStructure ==
    /\ pc = "structure"
    /\ Shown("structure")
    /\ \/ /\ \E s \in get_structure_choices(language) : structure' = s
          /\ frontend' = "None" /\ backend' = "None"
          /\ Continue
       \/ \E exc \in Exceptions :
             Raise(exc) /\ UNCHANGED <<structure, frontend, backend>>
    /\ UNCHANGED <<env, faults, fs, existed, project_name, overwrite, language,
                   visibility, acts, phases, missing, fe_ok, be_ok, fs0, checks>>

\* The frontend question asked for every structure.
AsksFrontendAlways(s) == TRUE

\* Line 812: if structure in ["Fullstack", "Frontend only"]
AsksFrontend(s) == s \in {"Fullstack", "Frontend only"}

\* Line 815: if structure in ["Fullstack", "Backend only"]
AsksBackend(s) == s \in {"Fullstack", "Backend only"}

\* Lines 812-813
ChooseFrontend ==
    /\ pc = "fe_prompt"
    /\ IF AsksFrontend(structure)
       THEN /\ Shown("frontend")
            /\ \/ \E f \in get_frontend_choices(language) : frontend' = f /\ Continue
               \/ \E exc \in Exceptions : Raise(exc) /\ UNCHANGED frontend
       ELSE Continue /\ UNCHANGED <<frontend, prompts>>
    /\ UNCHANGED <<env, faults, fs, existed, project_name, overwrite, language,
                   structure, backend, visibility, acts, phases, missing,
                   fe_ok, be_ok, fs0, checks>>

\* Lines 815-816
ChooseBackend ==
    /\ pc = "be_prompt"
    /\ IF AsksBackend(structure)
       THEN /\ Shown("backend")
            /\ \/ \E b \in get_backend_choices(language) : backend' = b /\ Continue
               \/ \E exc \in Exceptions : Raise(exc) /\ UNCHANGED backend
       ELSE Continue /\ UNCHANGED <<backend, prompts>>
    /\ UNCHANGED <<env, faults, fs, existed, project_name, overwrite, language,
                   structure, frontend, visibility, acts, phases, missing,
                   fe_ok, be_ok, fs0, checks>>

\* Lines 818-820
ToolchainCheck ==
    /\ pc = "toolchain"
    /\ Enter("ToolchainCheck")
    /\ IF backend = "None" THEN UNCHANGED env ELSE ProbeAny(LanguageTools(language))
    /\ IF check_language_dependencies(language, backend, onPath')
       THEN Continue
       ELSE Exit(1, "language tools required")
    /\ UNCHANGED <<faults, fs, existed, project_name, overwrite, plan, acts,
                   prompts, missing, fe_ok, be_ok, fs0, checks>>

\* Lines 822-831: the visibility question, asked only when gh is on the path.
GitHubSetup ==
    /\ pc = "gh"
    /\ Probe({"gh"})
    /\ IF "gh" \in onPath'
       THEN /\ Shown("visibility")
            /\ \/ \E v \in {"Public", "Private", "Skip"} : visibility' = v /\ Continue
               \/ \E exc \in Exceptions : Raise(exc) /\ UNCHANGED visibility
       ELSE /\ visibility' = "Skip"
            /\ pc' = NextStep(pc)
            /\ out' = Append(out, "gh not found")
            /\ UNCHANGED <<prompts, exitCode, raised, interrupted>>
    /\ UNCHANGED <<faults, fs, existed, project_name, overwrite, language,
                   structure, frontend, backend, acts, phases, missing,
                   fe_ok, be_ok, fs0, checks>>

----------------------------------------------------------------------------
\* run_cmd: what the command does, and what run_cmd returns for it.
\*   "zero"/"nonzero": the exit status; "oserror": starting it raises;
\*   "never": it does not finish on its own.
CmdOutcomes == {"zero", "nonzero", "oserror", "never"}

RunCmd(o, show_output) ==
    CASE o = "zero"    -> "True"
      [] o = "nonzero" -> "False"
      [] o = "oserror" -> "False"
      [] o = "never"   -> IF show_output
                          THEN "hang"     \* Popen + readline + wait(): no timeout
                          ELSE "False"    \* subprocess.run(timeout=300): TimeoutExpired

CmdResults(show_output) == {RunCmd(o, show_output) : o \in CmdOutcomes}

\* One result per run_cmd call of a fragment; flags[i] is the call's show_output.
ResultTuples(flags) ==
    {r \in [1..Len(flags) -> {"True", "False", "hang"}] :
        \A i \in 1..Len(flags) : r[i] \in CmdResults(flags[i])}

\* Generation actions
Run(what, arg, res) == [kind |-> "run", what |-> what, arg |-> arg, res |-> res]
Mkdir(path) == [kind |-> "mkdir", what |-> path, arg |-> <<>>, res |-> "True"]

\* write_file(path, content): False when the write fails.
write_file(path, io) ==
    [kind |-> "write", what |-> path, arg |-> <<>>,
     res |-> IF io = "write_file" THEN "False" ELSE "True"]

\* A fragment's outcome: ret is "True", "False", "hang" (a command never
\* returned) or "raise" (an exception left the fragment); swallowed: an
\* interrupt was absorbed inside the fragment.
R(ret, a) == [ret |-> ret, acts |-> a, swallowed |-> FALSE]

IoFailures == {"none", "makedirs", "open", "write_file"}
Scaffolds == {"none", "package.json", "full"}

CssPath(template) ==
    CASE template = "vue"    -> "frontend/src/style.css"
      [] template = "svelte" -> "frontend/src/lib/index.css"
      [] OTHER               -> "frontend/src/index.css"

AppPath(template) ==
    CASE template = "vue"    -> "frontend/src/App.vue"
      [] template = "svelte" -> "frontend/src/App.svelte"
      [] OTHER               -> "frontend/src/App.jsx"

create_tailwind_example(template, scaffold, io) ==
    IF scaffold = "full" THEN <<write_file(AppPath(template), io)>> ELSE <<>>

\* setup_tailwind_config; sigint: an interrupt arrives while App.svelte is
\* read (lines 282-290, bare except).
setup_tailwind_config(template, scaffold, io, sigint) ==
    LET w1 == <<write_file("frontend/tailwind.config.js", io)>>
        rest == <<write_file(CssPath(template), io)>>
                \o create_tailwind_example(template, scaffold, io)
    IN  IF template # "svelte" THEN R("True", w1 \o rest)
        ELSE IF io = "makedirs" THEN R("raise", w1)
        ELSE IF scaffold # "full"
             THEN R("True", w1 \o <<Mkdir("frontend/src/lib")>> \o rest)
        ELSE IF sigint
             THEN [ret |-> "True", swallowed |-> TRUE,
                   acts |-> w1 \o <<Mkdir("frontend/src/lib")>> \o rest]
             ELSE R("True", w1 \o <<Mkdir("frontend/src/lib"),
                                    write_file("frontend/src/App.svelte", io)>> \o rest)

setup_vite_project(template, r, scaffold, io, sigint) ==
    LET c1 == Run("npm create vite@latest frontend", <<template>>, r[1])
        c2 == Run("npm install --prefer-offline", <<>>, r[2])
        c3 == Run("npm install", <<>>, r[3])
        c4 == Run("npm install -D", <<"tailwindcss", "postcss", "autoprefixer">>, r[4])
        c5 == Run("npx tailwindcss init -p", <<>>, r[5])
        base == IF r[2] = "True" THEN <<c1, c2>> ELSE <<c1, c2, c3>>
        manual == IF r[5] = "True" THEN <<>>
                  ELSE <<write_file("frontend/tailwind.config.js", io),
                         write_file("frontend/postcss.config.js", io)>>
        cfg == setup_tailwind_config(template, scaffold, io, sigint)
    IN  IF r[1] # "True" THEN R(r[1], <<c1>>)
        ELSE IF scaffold = "none" THEN R("False", <<c1>>)
        ELSE IF r[2] = "hang" THEN R("hang", <<c1, c2>>)
        ELSE IF r[2] = "False" /\ r[3] # "True" THEN R(r[3], base)
        ELSE IF r[4] = "hang" THEN R("hang", Append(base, c4))
        ELSE IF r[4] = "False" THEN R("True", Append(base, c4))
        ELSE [ret |-> cfg.ret, swallowed |-> cfg.swallowed,
              acts |-> base \o <<c4, c5>> \o manual \o cfg.acts]

\* show_output of the run_cmd calls of each frontend fragment, in call order.
FrontendFlags(fe) ==
    CASE fe \in {"Vite + React", "Vue", "Svelte"} -> <<TRUE, TRUE, TRUE, TRUE, FALSE>>
      [] fe = "Angular"                            -> <<TRUE, TRUE>>
      [] OTHER                                     -> <<>>

setup_frontend(fe, r, scaffold, io, sigint) ==
    CASE fe = "Vite + React" -> setup_vite_project("react", r, scaffold, io, sigint)
      [] fe = "Vue"          -> setup_vite_project("vue", r, scaffold, io, sigint)
      [] fe = "Angular"      ->
            LET c1 == Run("npx -p @angular/cli ng new frontend", <<>>, r[1])
                c2 == Run("npm install --silent", <<>>, r[2])
            IN  IF r[1] = "True" THEN R(r[2], <<c1, c2>>) ELSE R(r[1], <<c1>>)
      [] fe = "Svelte"       -> setup_vite_project("svelte", r, scaffold, io, sigint)
      [] OTHER               -> R("True", <<>>)

\* The packages are never installed.
setup_npm_project_no_install(packages, r) ==
    R(r[1], <<Run("npm init -y", <<>>, r[1])>>)

\* setup_npm_project(path, packages): init silently, install with output.
setup_npm_project(packages, r) ==
    LET c1 == Run("npm init -y", <<>>, r[1])
        c2 == Run("npm install", packages, r[2])
    IN  IF r[1] # "True" THEN R(r[1], <<c1>>)
        ELSE IF packages # <<>> THEN R(r[2], <<c1, c2>>)
        ELSE R("True", <<c1>>)

\* The result of the venv command ignored like those of the pip commands.
setup_python_venv_unchecked(packages, r, io, path) ==
    LET python_cmd == IF "python3" \in path THEN "python3" ELSE "python"
        c1 == Run("-m venv venv", <<python_cmd>>, r[1])
        c2 == Run("pip install --upgrade pip", <<>>, r[2])
        c3 == Run("pip install", packages, r[3])
        req == [kind |-> "write", what |-> "backend/requirements.txt",
                arg |-> packages, res |-> "True"]
    IN  IF r[3] = "hang" THEN R("hang", <<c1, c2, c3>>)
        ELSE IF io = "open" THEN R("raise", <<c1, c2, c3>>)
        ELSE R("True", <<c1, c2, c3, req>>)

\* setup_python_venv(backend_path, packages)
setup_python_venv(packages, r, io, path) ==
    LET python_cmd == IF "python3" \in path THEN "python3" ELSE "python"
        c1 == Run("-m venv venv", <<python_cmd>>, r[1])
        c2 == Run("pip install --upgrade pip", <<>>, r[2])
        c3 == Run("pip install", packages, r[3])
        req == [kind |-> "write", what |-> "backend/requirements.txt",
                arg |-> packages, res |-> "True"]
    IN  IF r[1] # "True" THEN R("False", <<c1>>)
        ELSE IF r[3] = "hang" THEN R("hang", <<c1, c2, c3>>)
        ELSE IF io = "open" THEN R("raise", <<c1, c2, c3>>)
        ELSE R("True", <<c1, c2, c3, req>>)

\* create_rust_project(project_path, dependencies)
create_rust_project(dependencies, r, io) ==
    LET c1 == Run("cargo new backend --bin", <<>>, r[1])
        dep == [kind |-> "write", what |-> "backend/Cargo.toml",
                arg |-> <<dependencies>>, res |-> "True"]
    IN  IF r[1] # "True" THEN R("False", <<c1>>)
        ELSE IF io = "open" THEN R("raise", <<c1>>)
        ELSE R("True", <<c1, dep>>)

\* The write of an entry file whose content serves greeting on the route "/".
Entry(path, greeting, io) == [write_file(path, io) EXCEPT !.arg = <<"/", greeting>>]

\* A fragment followed by the write of the entry file (return write_file(...)).
ThenEntry(res, path, greeting, io) ==
    IF res.ret # "True" THEN res
    ELSE LET w == Entry(path, greeting, io)
         IN  R(w.res, Append(res.acts, w))

\* os.makedirs(backend_path, exist_ok=True) followed by the rest of the branch.
InBackendDir(io, res) ==
    IF io = "makedirs" THEN R("raise", <<>>)
    ELSE R(res.ret, <<Mkdir("backend")>> \o res.acts)

BackendFlags(be) ==
    CASE be = "Express"                 -> <<FALSE, TRUE>>
      [] be \in {"FastAPI", "Flask"}    -> <<FALSE, FALSE, TRUE>>
      [] be = "Django"                  -> <<FALSE, FALSE, TRUE, TRUE>>
      [] be \in {"Rocket", "Actix"}     -> <<FALSE>>
      [] be = "ASP.NET Core WebAPI"     -> <<TRUE>>
      [] OTHER                          -> <<>>

setup_backend(be, r, io, path) ==
    CASE be = "Express" ->
            InBackendDir(io, ThenEntry(
                setup_npm_project(<<"express", "cors", "dotenv">>, r),
                "backend/server.js", "Express backend running!", io))
      [] be = "FastAPI" ->
            InBackendDir(io, ThenEntry(
                setup_python_venv(<<"fastapi", "uvicorn[standard]">>, r, io, path),
                "backend/main.py", "FastAPI backend running!", io))
      [] be = "Flask" ->
            InBackendDir(io, ThenEntry(
                setup_python_venv(<<"flask", "flask-cors">>, r, io, path),
                "backend/app.py", "Flask backend running!", io))
      [] be = "Django" ->
            LET venv == setup_python_venv(
                            <<"django", "djangorestframework", "django-cors-headers">>,
                            r, io, path)
                c4 == Run("-m django startproject backend_app .", <<>>, r[4])
            IN  InBackendDir(io, IF venv.ret # "True" THEN venv
                                 ELSE R(r[4], Append(venv.acts, c4)))
      [] be = "Rocket" ->
            ThenEntry(create_rust_project("rocket = 0.5", r, io),
                      "backend/src/main.rs", "Rocket backend running!", io)
      [] be = "Actix" ->
            ThenEntry(create_rust_project("actix-web = 4", r, io),
                      "backend/src/main.rs", "Actix backend running!", io)
      [] be = "Basic HTTP Server" ->
            InBackendDir(io, ThenEntry(R("True", <<>>), "backend/main.go",
                                       "Go backend running!", io))
      [] be = "ASP.NET Core WebAPI" ->
            R(r[1], <<Run("dotnet new webapi -n backend", <<>>, r[1])>>)
      [] OTHER -> R("True", <<>>)

\* Paths an executed action leaves in the target directory.
Effect(a) ==
    IF a.res # "True" THEN {}
    ELSE IF a.kind \in {"write", "mkdir"} THEN {a.what}
    ELSE CASE a.what = "git init"                             -> {".git"}
           [] a.what = "npm create vite@latest frontend"      -> {"frontend"}
           [] a.what = "npx -p @angular/cli ng new frontend"  -> {"frontend"}
           [] a.what = "npm init -y"                          -> {"backend/package.json"}
           [] a.what = "-m venv venv"                         -> {"backend/venv"}
           [] a.what = "cargo new backend --bin"              -> {"backend"}
           [] a.what = "dotnet new webapi -n backend"         -> {"backend"}
           [] OTHER                                           -> {}

Effects(as) == UNION {Effect(as[i]) : i \in DOMAIN as}

Prefixes(as) == {SubSeq(as, 1, k) : k \in 0..Len(as)}

\* The actions `as` are executed.
Execute(as) == acts' = acts \o as /\ fs' = fs \cup Effects(as)

\* main() goes on to its next statement, having printed msgs.
Proceed(msgs, sigint) ==
    /\ pc' = NextStep(pc)
    /\ out' = out \o msgs
    /\ interrupted' = (interrupted \/ sigint)
    /\ UNCHANGED <<exitCode, raised>>

\* A command that never returns: main() stays blocked in run_cmd.
Hang ==
    /\ pc' = "hung"
    /\ UNCHANGED halt

\* The value a fragment returned to main(), if it returned.
Returned(res, old) == IF res.ret \in {"True", "False"} THEN res.ret ELSE old

\* A failed fragment treated as fatal.
AfterFragmentFatal(res, warning) ==
    CASE res.ret = "True"  -> Proceed(<<>>, res.swallowed)
      [] res.ret = "False" -> Exit(1, warning)
      [] res.ret = "hang"  -> Hang
      [] OTHER             -> Raise("Exception")

\* main() after a fragment returned res: the warning of lines 845/850.
AfterFragment(res, warning) ==
    CASE res.ret = "True"  -> Proceed(<<>>, res.swallowed)
      [] res.ret = "False" -> Proceed(<<warning>>, res.swallowed)
      [] res.ret = "hang"  -> Hang
      [] OTHER             -> Raise("Exception")

----------------------------------------------------------------------------
\* Line 835: run_cmd("git init", cwd=project_path), result ignored.
GitInit ==
    /\ pc = "gitinit"
    /\ Enter("GitInit")
    /\ \/ \E res \in CmdResults(FALSE) :
             /\ Fault(Cost(res # "True"))
             /\ Execute(<<Run("git init", <<>>, res)>>)
             /\ Continue
       \/ Raise("KeyboardInterrupt") /\ UNCHANGED <<acts, fs, faults>>
    /\ UNCHANGED <<env, existed, project_name, overwrite, plan, prompts,
                   missing, fe_ok, be_ok, fs0, checks>>

\* Lines 842-845
FrontendPhase ==
    /\ pc = "frontend"
    /\ IF frontend = "None"
       THEN Continue /\ UNCHANGED <<acts, fs, phases, fe_ok, faults>>
       ELSE /\ Enter("FrontendPhase")
            /\ \E r \in ResultTuples(FrontendFlags(frontend)),
                  scaffold \in Scaffolds, io \in IoFailures \ {"open"}, sigint \in BOOLEAN :
                 LET res == setup_frontend(frontend, r, scaffold, io, sigint)
                 IN  /\ Fault(Failed(r) + Cost(scaffold # "full") + Cost(io # "none")
                              + Cost(sigint))
                     /\ \/ /\ Execute(res.acts)
                           /\ AfterFragment(res, "frontend failed")
                           /\ fe_ok' = Returned(res, fe_ok)
                        \/ /\ \E done \in Prefixes(res.acts) : Execute(done)
                           /\ Raise("KeyboardInterrupt")
                           /\ UNCHANGED fe_ok
    /\ UNCHANGED <<env, existed, project_name, overwrite, plan, prompts,
                   missing, be_ok, fs0, checks>>

\* Lines 847-850
BackendPhase ==
    /\ pc = "backend"
    /\ IF backend = "None"
       THEN Continue /\ UNCHANGED <<acts, fs, phases, be_ok, faults>>
       ELSE /\ Enter("BackendPhase")
            /\ \E r \in ResultTuples(BackendFlags(backend)), io \in IoFailures :
                 LET res == setup_backend(backend, r, io, onPath)
                 IN  /\ Fault(Failed(r) + Cost(io # "none"))
                     /\ \/ /\ Execute(res.acts)
                           /\ AfterFragment(res, "backend failed")
                           /\ be_ok' = Returned(res, be_ok)
                        \/ /\ \E done \in Prefixes(res.acts) : Execute(done)
                           /\ Raise("KeyboardInterrupt")
                           /\ UNCHANGED be_ok
    /\ UNCHANGED <<env, existed, project_name, overwrite, plan, prompts,
                   missing, fe_ok, fs0, checks>>

\* Lines 852-856: start script (made executable off Windows), .gitignore, README.
StaticFilesPhase ==
    /\ pc = "static"
    /\ Enter("StaticFilesPhase")
    /\ \E io \in {"none", "write_file"}, is_windows \in BOOLEAN :
         LET script == write_file("start script", io)
             files == <<script, write_file(".gitignore", io), write_file("README.md", io)>>
         IN  /\ Fault(Cost(io # "none"))
             /\ \/ IF script.res = "False" /\ ~is_windows
                   THEN Execute(<<script>>) /\ Raise("Exception")   \* os.chmod: no such file
                   ELSE Execute(files) /\ Continue
                \/ /\ \E done \in Prefixes(files) : Execute(done)
                   /\ Raise("KeyboardInterrupt")
    /\ UNCHANGED <<env, existed, project_name, overwrite, plan, prompts,
                   missing, fe_ok, be_ok, fs0, checks>>

\* Lines 858-861: git add, git commit, results ignored.
CommitPhase ==
    /\ pc = "commit"
    /\ Enter("CommitPhase")
    /\ \E r \in ResultTuples(<<FALSE, FALSE>>) :
         LET cmds == <<Run("git add .", <<>>, r[1]), Run("git commit", <<>>, r[2])>>
         IN  /\ Fault(Failed(r))
             /\ \/ Execute(cmds) /\ Continue
                \/ /\ \E done \in Prefixes(cmds) : Execute(done)
                   /\ Raise("KeyboardInterrupt")
    /\ UNCHANGED <<env, existed, project_name, overwrite, plan, prompts,
                   missing, fe_ok, be_ok, fs0, checks>>

\* The repository is published whatever was answered.
PublishAlways == TRUE

\* Line 863: if visibility != "Skip"
PublishWanted == visibility # "Skip"

\* Lines 863-870
RemotePublishPhase ==
    /\ pc = "publish"
    /\ IF ~PublishWanted
       THEN Continue /\ UNCHANGED <<acts, fs, phases, faults>>
       ELSE /\ Enter("RemotePublishPhase")
            /\ \E res \in CmdResults(TRUE) :
                 LET flag == IF visibility = "Public" THEN "--public" ELSE "--private"
                     cmd == Run("gh repo create", <<flag>>, res)
                 IN  /\ Fault(Cost(res # "True"))
                     /\ \/ /\ Execute(<<cmd>>)
                           /\ AfterFragment(R(res, <<cmd>>), "publish failed")
                        \/ /\ UNCHANGED <<acts, fs>>
                           /\ Raise("KeyboardInterrupt")
    /\ UNCHANGED <<env, existed, project_name, overwrite, plan, prompts,
                   missing, fe_ok, be_ok, fs0, checks>>

\* Lines 872-875: open_project_folder catches its own exceptions.
OpenFolder ==
    /\ pc = "open"
    /\ Enter("OpenFolder")
    /\ Shown("open")
    /\ \/ \E answer \in {"Yes", "No"} :
            IF answer = "No" THEN Continue /\ UNCHANGED faults
            ELSE \/ Continue /\ UNCHANGED faults   \* opened, or its error reported
                 \/ Hang /\ Fault(1)               \* subprocess.run without timeout
                 \/ Raise("KeyboardInterrupt") /\ UNCHANGED faults
       \/ \E exc \in Exceptions : Raise(exc) /\ UNCHANGED faults
    /\ UNCHANGED <<env, fs, existed, project_name, overwrite, plan, acts,
                   missing, fe_ok, be_ok, fs0, checks>>

\* Lines 877-880 and the normal return of main().
Finish ==
    /\ pc = "finish"
    /\ Enter("Done")
    /\ pc' = "exited"
    /\ exitCode' = {0}
    /\ out' = Append(out, "setup complete")
    /\ UNCHANGED <<raised, interrupted>>
    /\ UNCHANGED <<env, faults, fs, existed, project_name, overwrite, plan, acts,
                   prompts, missing, fe_ok, be_ok, fs0, checks>>

Next ==
    \/ StartChecks
    \/ CheckTool
    \/ CheckDependencies
    \/ EnterProjectName
    \/ EnterSavePath
    \/ HandleExisting
    \/ MakeProjectDir
    \/ ChooseLanguage
    \/ ChooseStructure
    \/ ChooseFrontend
    \/ ChooseBackend
    \/ ToolchainCheck
    \/ GitHubSetup
    \/ GitInit
    \/ FrontendPhase
    \/ BackendPhase
    \/ StaticFilesPhase
    \/ CommitPhase
    \/ RemotePublishPhase
    \/ OpenFolder
    \/ Finish

Spec == Init /\ [][Next]_vars

----------------------------------------------------------------------------
\* Properties

Last(s) == s[Len(s)]
Said(m) == m \in Range(out)
Entered(ph) == ph \in Range(phases)
Asked(q) == q \in Range(prompts)

PhaseOrder ==
    <<"DependencyCheck", "Prompting", "ToolchainCheck", "GitInit", "FrontendPhase",
      "BackendPhase", "StaticFilesPhase", "CommitPhase", "RemotePublishPhase",
      "OpenFolder", "Done">>

Rank(ph) == CHOOSE i \in DOMAIN PhaseOrder : PhaseOrder[i] = ph

\* Phases that a run passing them cannot skip, given its plan.
Required(ph) ==
    CASE ph = "FrontendPhase"      -> frontend # "None"
      [] ph = "BackendPhase"       -> backend # "None"
      [] ph = "RemotePublishPhase" -> visibility # "Skip"
      [] OTHER                     -> TRUE

C2_PreMutationHalt ==
    /\ (/\ Range(BaseTools) \subseteq probed /\ ~(Range(BaseTools) \subseteq onPath)
        /\ pc # "deps_wait" /\ raised = "none")
          => /\ pc = "exited" /\ exitCode = {1}
             /\ Said("missing dependencies")
             /\ fs = fs0 /\ acts = <<>> /\ prompts = <<>>
    /\ project_name = ""
          => /\ pc = "exited" /\ exitCode = {1}
             /\ fs = fs0 /\ acts = <<>>

C2_Witness ==
    /\ pc = "exited" /\ exitCode = {1}
    /\ "npm" \in probed /\ "npm" \notin onPath /\ "git" \in onPath
    /\ fs0 = OldTree

\* C3: an existing target directory makes main() ask for confirmation; after
\* No the run has exited with code 0 and the tree is untouched; after Yes the
\* old tree is gone and the directory is empty from its re-creation until
\* the first generation action.
C3_Overwrite ==
    /\ existed => Asked("overwrite")
    /\ overwrite = "No" => pc = "exited" /\ exitCode = {0} /\ fs = fs0 /\ acts = <<>>
    /\ (existed /\ acts # <<>>) => overwrite = "Yes" /\ "old" \notin fs
    /\ (existed /\ pc \in {"language", "structure", "fe_prompt", "be_prompt",
                            "toolchain", "gh", "gitinit"})
          => fs = EmptyDir

C3_Witness ==
    /\ fs0 = OldTree /\ overwrite = "Yes"
    /\ pc = "exited" /\ exitCode = {0}
    /\ "README.md" \in fs /\ "old" \notin fs

ToolchainLanguages == {"Python", "Rust", "Go", "C#"}

\* The toolchain of the chosen language has been looked up and is absent.
ToolchainMissing ==
    /\ language \in ToolchainLanguages
    /\ backend \notin {"None", Unset}
    /\ Range(LanguageTools(language)) \subseteq probed
    /\ Range(LanguageTools(language)) \cap onPath = {}

\* C4 (as claimed): a run halted by the language toolchain check has removed
\* nothing: a target directory that existed before the run still holds its
\* old tree.
C4_NoRemovalBeforeToolchainHalt ==
    (pc = "exited" /\ Said("language tools required") /\ fs0 = OldTree)
        => "old" \in fs

\* C5: the toolchain check runs once the backend is chosen and before any
\* generation action; a missing toolchain for a non-None backend of Python,
\* Rust, Go or C# ends the run with code 1 and no generation action; with
\* backend None or language JavaScript the check passes.
C5_ToolchainCheck ==
    /\ Entered("ToolchainCheck") => backend # Unset
    /\ acts # <<>> => Entered("ToolchainCheck")
    /\ ToolchainMissing
          => /\ pc = "exited" /\ exitCode = {1}
             /\ Said("language tools required")
             /\ acts = <<>>
    /\ (Entered("ToolchainCheck") /\ (backend = "None" \/ language = "JavaScript"))
          => /\ ~Said("language tools required")
             /\ pc # "toolchain"

C5_Witness ==
    /\ ToolchainMissing
    /\ language = "Python" /\ backend = "Flask"
    /\ pc = "exited" /\ exitCode = {1}

StaticFiles == {"start script", ".gitignore", "README.md"}

Attempted(kind, what) ==
    \E i \in DOMAIN acts : acts[i].kind = kind /\ acts[i].what = what

C7_InterruptCaught ==
    (interrupted /\ Asked("language"))
        => pc = "exited" /\ exitCode = {1} /\ Last(out) = "interrupted"

\* C8 (as claimed): an exception raised in main() from the handling of the
\* existing directory onwards is caught: the run has printed the generic
\* error message and exited with code 1.
C8_ExceptionCaught ==
    (raised = "Exception" /\ Asked("path"))
        => pc = "exited" /\ exitCode = {1} /\ Last(out) = "unexpected error"

\* The policy table of the Choice Catalog.
PolicyStructures(lang) ==
    CASE lang = "JavaScript" -> {"Fullstack", "Frontend only", "Backend only"}
      [] lang = "Python"     -> {"Fullstack", "Frontend only", "Backend only"}
      [] lang = "Rust"       -> {"Backend only"}
      [] lang = "Go"         -> {"Backend only"}
      [] lang = "C#"         -> {"Backend only"}

PolicyFrontends(lang) ==
    CASE lang = "JavaScript" -> {"Vite + React", "Vue", "Angular", "Svelte", "None"}
      [] lang = "Python"     -> {"None"}
      [] lang = "Rust"       -> {"None"}
      [] lang = "Go"         -> {"None"}
      [] lang = "C#"         -> {"None"}

PolicyBackends(lang) ==
    CASE lang = "JavaScript" -> {"Express", "None"}
      [] lang = "Python"     -> {"Flask", "Django", "FastAPI", "None"}
      [] lang = "Rust"       -> {"Rocket", "Actix", "None"}
      [] lang = "Go"         -> {"Basic HTTP Server", "None"}
      [] lang = "C#"         -> {"ASP.NET Core WebAPI", "None"}

\* C9: for the language of the run (each of the five), the three catalog
\* functions return the sets of the policy table; the structure set is not
\* empty, the backend set contains None, and the frontend set is {None}
\* unless the language is JavaScript.
C9_ChoiceCatalog ==
    language \in Languages
        => /\ get_structure_choices(language) = PolicyStructures(language)
           /\ get_frontend_choices(language) = PolicyFrontends(language)
           /\ get_backend_choices(language) = PolicyBackends(language)
           /\ get_structure_choices(language) # {}
           /\ "None" \in get_backend_choices(language)
           /\ language # "JavaScript" => get_frontend_choices(language) = {"None"}

C9_Witness ==
    /\ language = "Python" /\ structure = "Fullstack"
    /\ frontend = "None" /\ backend = "Django"
    /\ pc = "toolchain"

\* C10 (as claimed): a structure of Fullstack or Frontend only is resolved
\* only for JavaScript; every other language resolves to Backend only.
C10_OnlyJavaScriptHasFrontendStructures ==
    (language \in Languages \ {"JavaScript"} /\ structure # Unset)
        => structure = "Backend only"

\* C10 (amended): a structure of Fullstack or Frontend only is resolved only
\* for JavaScript or Python; Rust, Go and C# resolve to Backend only.
C10_BackendOnlyLanguages ==
    /\ structure \in {"Fullstack", "Frontend only"} => language \in {"JavaScript", "Python"}
    /\ (language \in {"Rust", "Go", "C#"} /\ structure # Unset)
          => structure = "Backend only"

C10_Witness ==
    /\ language = "Go" /\ structure = "Backend only"
    /\ backend = "Basic HTTP Server"
    /\ pc = "exited" /\ exitCode = {0}

----------------------------------------------------------------------------
\* check_dependencies has merged the probe results: it printed the failure
\* message or returned to main().
DepsMerged == Said("missing dependencies") \/ pc = "name" \/ Asked("name")

\* C11: whatever the order in which the three probes complete, the results
\* are merged only once all three are done; the failure message names every
\* missing base tool and no other, once each, and the run then exits with
\* code 1; with no tool missing check_dependencies returns without a message.
C11_DependencyMerge ==
    /\ DepsMerged => Range(BaseTools) \subseteq probed
    /\ Said("missing dependencies")
          => /\ Range(missing) = Range(BaseTools) \ onPath
             /\ missing # <<>>
             /\ Cardinality(Range(missing)) = Len(missing)
             /\ pc = "exited" /\ exitCode = {1}
    /\ (DepsMerged /\ Range(BaseTools) \subseteq onPath)
          => /\ ~Said("missing dependencies")
             /\ missing = <<>>
    /\ (DepsMerged /\ ~(Range(BaseTools) \subseteq onPath))
          => Said("missing dependencies")

C11_Witness ==
    /\ pc = "exited" /\ exitCode = {1}
    /\ checks = <<"npm", "git", "node">>
    /\ missing = <<"git", "npm">>
    /\ Said("missing dependencies")

----------------------------------------------------------------------------
\* C12: gh repo create is executed only when gh was found on the search path
\* and the answer to the visibility question was Public or Private; when gh
\* is not found the visibility question is not asked and nothing is
\* published; after a publish that failed the run is not halted by it: it
\* goes on to the open-folder question, and when it then ends without an
\* interrupt or exception it ends with exit code 0.
C12_RemotePublish ==
    /\ Attempted("run", "gh repo create")
          => "gh" \in onPath /\ visibility \in {"Public", "Private"}
    /\ ("gh" \in probed /\ "gh" \notin onPath)
          => /\ ~Asked("visibility")
             /\ ~Attempted("run", "gh repo create")
             /\ ~Entered("RemotePublishPhase")
    /\ Said("publish failed")
          => /\ pc \in {"open", "finish", "exited", "hung"}
             /\ pc = "open" \/ Asked("open")
             /\ (pc = "exited" /\ raised = "none")
                   => exitCode = {0} /\ Entered("Done")

C12_Witness ==
    /\ Said("publish failed")
    /\ \E i \in DOMAIN acts :
          acts[i] = Run("gh repo create", <<"--private">>, "False")
    /\ Asked("open")
    /\ pc = "exited" /\ exitCode = {0}

----------------------------------------------------------------------------
\* An external command among the actions added to old to give new failed:
\* run_cmd returned False for it (non-zero exit, timeout, or not startable).
FailedCommandIn(old, new) ==
    \E i \in (Len(old) + 1)..Len(new) : new[i].kind = "run" /\ new[i].res = "False"

\* C13: whenever a fragment in which an external command failed returns to
\* main(), it has returned failure and main() has logged the warning of
\* that phase.
C13_FailedCommandFailsFragment ==
    [][(/\ pc \in {"frontend", "backend"}
        /\ pc' = NextStep(pc)
        /\ FailedCommandIn(acts, acts'))
          => /\ pc = "frontend" => fe_ok' = "False" /\ Said("frontend failed")'
             /\ pc = "backend" => be_ok' = "False" /\ Said("backend failed")']_vars

----------------------------------------------------------------------------
\* C14: every external command started by run_cmd comes back within the
\* timeout: run_cmd has returned True or False for it (False for one that did
\* not finish on its own), in the silent mode and in the show_output mode, so
\* that main() is never left blocked inside run_cmd.
C14_EveryCommandBounded ==
    \A i \in DOMAIN acts :
        acts[i].kind = "run" => acts[i].res \in {"True", "False"}

----------------------------------------------------------------------------
\* setup_frontend and setup_backend called on their own, with any choice
\* name: the names of the catalog and one name of no catalog entry each.

FrontendNames == UNION {get_frontend_choices(l) : l \in Languages} \cup {"Next.js"}
BackendNames == UNION {get_backend_choices(l) : l \in Languages} \cup {"Spring Boot"}

\* The caller holds a language and one choice, in an empty project directory.
FragmentInit ==
    /\ pc = "call"
    /\ onPath \in {Range(BaseTools), Range(BaseTools) \cup {"python3"}}
    /\ probed = onPath
    /\ faults = 0
    /\ fs = EmptyDir /\ fs0 = fs
    /\ existed = FALSE
    /\ project_name = "valid"
    /\ overwrite = Unset
    /\ language \in Languages
    /\ structure = Unset
    /\ \/ frontend \in FrontendNames /\ backend = Unset
       \/ frontend = Unset /\ backend \in BackendNames
    /\ visibility = Unset
    /\ acts = <<>> /\ phases = <<>> /\ prompts = <<>> /\ out = <<>>
    /\ missing = <<>>
    /\ exitCode = NoExit
    /\ raised = "none"
    /\ interrupted = FALSE
    /\ fe_ok = Unset /\ be_ok = Unset
    /\ checks = <<>>

\* The call has returned res.ret, never returns, or raised.
AfterCall(res) ==
    /\ pc' = (CASE res.ret = "hang"  -> "hung"
                [] res.ret = "raise" -> "crashed"
                [] OTHER             -> "returned")
    /\ raised' = (IF res.ret = "raise" THEN "Exception" ELSE raised)
    /\ interrupted' = (interrupted \/ res.swallowed)
    /\ UNCHANGED <<out, exitCode>>

\* setup_frontend(project_path, frontend), lines 557-574
CallSetupFrontend ==
    /\ pc = "call" /\ frontend # Unset
    /\ \E r \in ResultTuples(FrontendFlags(frontend)),
          scaffold \in Scaffolds, io \in IoFailures \ {"open"}, sigint \in BOOLEAN :
         LET res == setup_frontend(frontend, r, scaffold, io, sigint)
         IN  /\ Fault(Failed(r) + Cost(scaffold # "full") + Cost(io # "none")
                      + Cost(sigint))
             /\ Execute(res.acts)
             /\ AfterCall(res)
             /\ fe_ok' = Returned(res, fe_ok)
    /\ UNCHANGED <<env, existed, project_name, overwrite, plan, phases, prompts,
                   missing, be_ok, fs0, checks>>

\* setup_backend(project_path, backend), lines 576-726
CallSetupBackend ==
    /\ pc = "call" /\ backend # Unset
    /\ \E r \in ResultTuples(BackendFlags(backend)), io \in IoFailures :
         LET res == setup_backend(backend, r, io, onPath)
         IN  /\ Fault(Failed(r) + Cost(io # "none"))
             /\ Execute(res.acts)
             /\ AfterCall(res)
             /\ be_ok' = Returned(res, be_ok)
    /\ UNCHANGED <<env, existed, project_name, overwrite, plan, phases, prompts,
                   missing, fe_ok, fs0, checks>>

FragmentNext == CallSetupFrontend \/ CallSetupBackend

FragmentSpec == FragmentInit /\ [][FragmentNext]_vars

\* C15: a call of setup_frontend or setup_backend with a choice outside the
\* catalog's set for the caller's language produces no generation action and
\* does not return success.
C15_OffCatalogRejected ==
    /\ (pc # "call" /\ frontend # Unset
          /\ frontend \notin get_frontend_choices(language))
          => acts = <<>> /\ fe_ok = "False"
    /\ (pc # "call" /\ backend # Unset
          /\ backend \notin get_backend_choices(language))
          => acts = <<>> /\ be_ok = "False"

----------------------------------------------------------------------------
\* C16: in every plan main() resolves, a frontend other than None is one of
\* get_frontend_choices(language) and a backend other than None is one of
\* get_backend_choices(language); for a language other than JavaScript the
\* frontend is None whatever the structure; the frontend question is asked
\* only for Fullstack or Frontend only and the backend question only for
\* Fullstack or Backend only, so Backend only has frontend None and
\* Frontend only has backend None.
C16_ResolvedPlan ==
    /\ frontend \notin {Unset, "None"} => frontend \in get_frontend_choices(language)
    /\ backend \notin {Unset, "None"} => backend \in get_backend_choices(language)
    /\ (language # "JavaScript" /\ frontend # Unset) => frontend = "None"
    /\ Asked("frontend") => structure \in {"Fullstack", "Frontend only"}
    /\ Asked("backend") => structure \in {"Fullstack", "Backend only"}
    /\ (structure = "Backend only" /\ frontend # Unset) => frontend = "None"
    /\ (structure = "Frontend only" /\ backend # Unset) => backend = "None"

C16_Witness ==
    /\ pc = "toolchain"
    /\ language = "JavaScript" /\ structure = "Backend only"
    /\ frontend = "None" /\ backend = "Express"
    /\ ~Asked("frontend") /\ Asked("backend")

----------------------------------------------------------------------------
\* s is a subsequence of t: its elements occur in t in the same order.
RECURSIVE Subseq(_, _)
Subseq(s, t) ==
    IF s = <<>> THEN TRUE
    ELSE IF t = <<>> THEN FALSE
    ELSE IF Head(s) = Head(t) THEN Subseq(Tail(s), Tail(t))
    ELSE Subseq(s, Tail(t))

\* Every executed action succeeded and both fragments returned success.
AllSucceeded ==
    /\ \A i \in DOMAIN acts : acts[i].res = "True"
    /\ fe_ok = "True" /\ be_ok = "True"

\* The actions C17 names, in its order.
ViteReactExpressSteps ==
    <<Run("npm create vite@latest frontend", <<"react">>, "True"),
      Run("npm install --prefer-offline", <<>>, "True"),
      Run("npm install -D", <<"tailwindcss", "postcss", "autoprefixer">>, "True"),
      Run("npx tailwindcss init -p", <<>>, "True"),
      write_file("frontend/tailwind.config.js", "none"),
      Run("npm init -y", <<>>, "True"),
      Run("npm install", <<"express", "cors", "dotenv">>, "True"),
      Entry("backend/server.js", "Express backend running!", "none")>>

\* C17: for the plan (JavaScript, Fullstack, Vite + React, Express), once both
\* fragments have returned with every command succeeding, the executed
\* actions contain, in this order: npm create vite, the base install, the
\* Tailwind install, the Tailwind configuration, npm init in backend, the
\* install of exactly express, cors and dotenv, and the write of server.js.
C17_ViteReactExpressOrder ==
    (/\ language = "JavaScript" /\ structure = "Fullstack"
     /\ frontend = "Vite + React" /\ backend = "Express"
     /\ AllSucceeded)
        => /\ Subseq(ViteReactExpressSteps, acts)
           /\ \A i \in DOMAIN acts :
                 (acts[i].kind = "run" /\ acts[i].what = "npm install")
                     => acts[i].arg = <<"express", "cors", "dotenv">>

C17_Witness ==
    /\ language = "JavaScript" /\ structure = "Fullstack"
    /\ frontend = "Vite + React" /\ backend = "Express"
    /\ AllSucceeded
    /\ Subseq(ViteReactExpressSteps, acts)
    /\ pc = "exited" /\ exitCode = {0}

----------------------------------------------------------------------------
\* The actions C18 names, in its order, python_cmd being the interpreter found.
FlaskSteps(python_cmd) ==
    <<Run("-m venv venv", <<python_cmd>>, "True"),
      Run("pip install", <<"flask", "flask-cors">>, "True"),
      [kind |-> "write", what |-> "backend/requirements.txt",
       arg |-> <<"flask", "flask-cors">>, res |-> "True"],
      Entry("backend/app.py", "Flask backend running!", "none")>>

FlaskPlan ==
    /\ language = "Python" /\ structure = "Backend only"
    /\ frontend = "None" /\ backend = "Flask"

\* The index of the venv command among the executed actions, 0 if not run.
VenvAt ==
    IF Attempted("run", "-m venv venv")
    THEN CHOOSE i \in DOMAIN acts : acts[i].what = "-m venv venv"
    ELSE 0

\* C18: for the plan (Python, Backend only, None, Flask) packages are
\* installed only after the virtual environment was created, and the only
\* packages installed are flask and flask-cors; when the fragment returned
\* success with every action succeeding, the executed actions contain in
\* order the venv creation, that install, the write of requirements.txt
\* listing both names and the write of app.py serving the Flask greeting on
\* "/"; when the venv creation failed, no package was installed and neither
\* requirements.txt nor app.py was written.
C18_FlaskFragment ==
    FlaskPlan
        => /\ \A i \in DOMAIN acts :
                 acts[i].what \in {"pip install", "pip install --upgrade pip"}
                     => /\ VenvAt \in 1..(i - 1)
                        /\ acts[VenvAt].res = "True"
                        /\ acts[i].what = "pip install"
                              => acts[i].arg = <<"flask", "flask-cors">>
           /\ (be_ok = "True" /\ \A i \in DOMAIN acts : acts[i].res = "True")
                 => \E py \in {"python3", "python"} : Subseq(FlaskSteps(py), acts)
           /\ (VenvAt # 0 /\ acts[VenvAt].res # "True")
                 => /\ ~Attempted("run", "pip install")
                    /\ ~Attempted("run", "pip install --upgrade pip")
                    /\ ~Attempted("write", "backend/requirements.txt")
                    /\ ~Attempted("write", "backend/app.py")
                    /\ be_ok # "True"

C18_Witness ==
    /\ FlaskPlan
    /\ be_ok = "True" /\ \A i \in DOMAIN acts : acts[i].res = "True"
    /\ Subseq(FlaskSteps("python3"), acts)
    /\ pc = "exited" /\ exitCode = {0}

====
